---- MODULE Spec2Model ----
(***************************************************************************)
(* State-machine model of argument_dialog/argument_dialog_ui.py: the       *)
(* ArgumentDialog form, its ArgumentWidget variants, the doc-string parser *)
(* and the call / preview reconstruction from the modified widgets (Spec), *)
(* and of delete_window over the top-level widgets of the application      *)
(* (AppSpec).                                                              *)
(*                                                                         *)
(* Text (str values, parameter names, the preview) is a sequence of        *)
(* one-character strings.  A Python value is a record                      *)
(*   [t: type name, n: integer part, f: fraction, s: text]                 *)
(* where a float is n + f / FracUnit for n >= 0 and n - f / FracUnit for   *)
(* n < 0 (floats strictly between -1 and 0 are not represented).           *)
(***************************************************************************)
EXTENDS Integers, Sequences, FiniteSets, TLC

VARIABLES
    func,                   \* ArgumentDialog.func: the target callable, by its __name__
    input_arg_widget_dict,  \* ArgumentDialog.input_arg_widget_dict (overrides)
    default_values,         \* ArgumentDialog.default_values (seed values)
    default_arg_type,       \* ArgumentDialog.default_arg_type
    generated_arg_widgets,  \* ArgumentDialog.generated_arg_widgets
    func_preview_text_TE,   \* text shown by ArgumentDialog.func_preview_text_TE
    pc,                     \* position inside ArgumentDialog.__init__, or "ready"
    param_idx,              \* loop index of generate_argument_widgets
    invoked,                \* calls of func made by the latest event handler
    propagated,             \* exception that left the latest event handler
    top_level_widgets       \* QApplication.topLevelWidgets(): the other windows

\* the state of the form of one dialog
form_vars == <<func, input_arg_widget_dict, default_values, default_arg_type,
               generated_arg_widgets, func_preview_text_TE, pc, param_idx,
               invoked, propagated>>

vars == <<form_vars, top_level_widgets>>

----------------------------------------------------------------------------
(* Bounds of the model *)

\* longest text a user types into a line edit / text edit
MaxStrLen == 2

----------------------------------------------------------------------------
(* Program constants *)

\* DoubleSpinBoxWidget.build_widget: spin_box.setMinimum / setMaximum
SpinMinimum == -999999999
SpinMaximum == 999999999
\* DoubleSpinBoxWidget.create_spin_widget: spin.setDecimals(4)
SpinDecimals == 4

\* resolution of the fraction of a float: one digit more than SpinDecimals
FracUnit == 10 ^ (SpinDecimals + 1)

----------------------------------------------------------------------------
(* Python values *)

BoolVal(b) == [t |-> "bool", n |-> IF b THEN 1 ELSE 0, f |-> 0, s |-> <<>>]
IntVal(i) == [t |-> "int", n |-> i, f |-> 0, s |-> <<>>]
FloatVal(i, fr) == [t |-> "float", n |-> i, f |-> fr, s |-> <<>>]
StrVal(txt) == [t |-> "str", n |-> 0, f |-> 0, s |-> txt]
NoneVal == [t |-> "NoneType", n |-> 0, f |-> 0, s |-> <<>>]
\* an instance of a class of the caller (class Custom(object): pass)
CustomVal == [t |-> "Custom", n |-> 0, f |-> 0, s |-> <<>>]
\* the class object RequiresValueType, used as the no-default sentinel
RequiresValueType == [t |-> "type", n |-> 0, f |-> 0, s |-> <<>>]

NumericTypes == {"bool", "int", "float"}

\* Python's == on the values of the model: numbers compare by value
PyEq(v, w) ==
    IF v.t \in NumericTypes /\ w.t \in NumericTypes
    THEN v.n = w.n /\ v.f = w.f
    ELSE v = w

\* Python truthiness (bool(v))
Truthy(v) ==
    CASE v.t \in NumericTypes -> v.n # 0 \/ v.f # 0
      [] v.t = "str" -> v.s # <<>>
      [] v.t = "NoneType" -> FALSE
      [] OTHER -> TRUE

----------------------------------------------------------------------------
(* Text helpers *)

Digit(d) == <<"0", "1", "2", "3", "4", "5", "6", "7", "8", "9">>[d + 1]

RECURSIVE NatToText(_)
NatToText(k) == IF k < 10 THEN <<Digit(k)>>
                ELSE NatToText(k \div 10) \o <<Digit(k % 10)>>

IntToText(i) == IF i < 0 THEN <<"-">> \o NatToText(-i) ELSE NatToText(i)

\* the digits of a fraction fr / unit, without trailing zeros, at least one
RECURSIVE FracToText(_, _)
FracToText(fr, unit) ==
    LET d == (fr * 10) \div unit
        rest == (fr * 10) % unit
    IN <<Digit(d)>> \o (IF rest = 0 THEN <<>> ELSE FracToText(rest, unit))

\* "{}".format(val): bool -> True/False, int -> decimal, float -> repr, str -> itself
Format(val) ==
    CASE val.t = "bool" -> IF val.n = 1 THEN <<"T", "r", "u", "e">>
                           ELSE <<"F", "a", "l", "s", "e">>
      [] val.t = "int" -> IntToText(val.n)
      [] val.t = "float" -> IntToText(val.n) \o <<".">> \o FracToText(val.f, FracUnit)
      [] val.t = "str" -> val.s
      [] val.t = "NoneType" -> <<"N", "o", "n", "e">>
      [] OTHER -> <<"?">>

RECURSIVE Spaces(_)
Spaces(k) == IF k = 0 THEN <<>> ELSE <<" ">> \o Spaces(k - 1)

----------------------------------------------------------------------------
(* Python dicts with text keys: a sequence of <<key, value>> pairs in        *)
(* insertion order (dict / collections.OrderedDict)                          *)

DictHas(d, k) == \E i \in 1..Len(d) : d[i][1] = k

\* d.get(k, dflt)
DictGet(d, k, dflt) ==
    IF DictHas(d, k) THEN d[CHOOSE i \in 1..Len(d) : d[i][1] = k][2] ELSE dflt

\* d[k] = v: an existing key keeps its position
DictSet(d, k, v) ==
    IF DictHas(d, k)
    THEN [i \in 1..Len(d) |-> IF d[i][1] = k THEN <<k, v>> ELSE d[i]]
    ELSE Append(d, <<k, v>>)

\* the absent result of dict.get / the value None of an optional argument
Absent == <<>>

----------------------------------------------------------------------------
(* Python str methods used by the doc-string parser *)

\* sub in line
Contains(line, sub) ==
    \E i \in 1..(Len(line) - Len(sub) + 1) : SubSeq(line, i, i + Len(sub) - 1) = sub

\* line.lstrip(chars): drops every leading character that is in chars
RECURSIVE LStrip(_, _)
LStrip(line, chars) ==
    IF line # <<>> /\ Head(line) \in chars THEN LStrip(Tail(line), chars) ELSE line

\* line.split(sep) for a one-character sep
RECURSIVE Split(_, _)
Split(line, sep) ==
    IF \E i \in 1..Len(line) : line[i] = sep
    THEN LET i == CHOOSE i \in 1..Len(line) :
                      line[i] = sep /\ \A j \in 1..(i - 1) : line[j] # sep
         IN <<SubSeq(line, 1, i - 1)>> \o Split(SubSeq(line, i + 1, Len(line)), sep)
    ELSE <<line>>

\* re.compile('<(.*)>').search(text): the leftmost '<' that has a '>' after
\* it, and the greedy group up to the last '>'
RegexMatches(text) ==
    \E i \in 1..Len(text) : text[i] = "<" /\ \E j \in (i + 1)..Len(text) : text[j] = ">"

RegexGroup1(text) ==
    LET i == CHOOSE i \in 1..Len(text) :
                 /\ text[i] = "<"
                 /\ \E j \in (i + 1)..Len(text) : text[j] = ">"
                 /\ \A k \in 1..(i - 1) :
                        ~(text[k] = "<" /\ \E j \in (k + 1)..Len(text) : text[j] = ">")
        j == CHOOSE j \in (i + 1)..Len(text) :
                 text[j] = ">" /\ \A k \in (j + 1)..Len(text) : text[k] # ">"
    IN SubSeq(text, i + 1, j - 1)

ParamPrefix == <<":", "p", "a", "r", "a", "m", " ">>
\* the argument of doc_line.lstrip(":param ") is a set of characters
ParamStripChars == {ParamPrefix[i] : i \in 1..Len(ParamPrefix)}

\* generate_argument_widgets, the body of the loop over the doc lines:
\* docs is [tips: param_tool_tips, types: param_doc_string_types]
ParseDocLine(docs, doc_line) ==
    IF ~Contains(doc_line, ParamPrefix) THEN docs
    ELSE LET param_doc_split == Split(LStrip(doc_line, ParamStripChars), ":")
         IN IF Len(param_doc_split) = 1 THEN docs
            ELSE IF param_doc_split[2] = <<>> THEN docs
            ELSE LET tips == DictSet(docs.tips, param_doc_split[1], param_doc_split[2])
                     type_doc_part == param_doc_split[2]
                 IN IF RegexMatches(type_doc_part)
                    THEN [tips |-> tips,
                          types |-> DictSet(docs.types, param_doc_split[1],
                                            RegexGroup1(type_doc_part))]
                    ELSE [tips |-> tips, types |-> docs.types]

RECURSIVE ParseDocLines(_, _)
ParseDocLines(docs, lines) ==
    IF lines = <<>> THEN docs
    ELSE ParseDocLines(ParseDocLine(docs, Head(lines)), Tail(lines))

\* param_tool_tips and param_doc_string_types of a callable; f.doc is the
\* result of inspect.getdoc(f).splitlines()
ParseDocString(f) == ParseDocLines([tips |-> <<>>, types |-> <<>>], f.doc)

----------------------------------------------------------------------------
(* get_func_arguments *)

\* parameter_dict after the first loop: every name -> RequiresValueType
RequiredDict(args) == [i \in 1..Len(args) |-> <<args[i], RequiresValueType>>]

\* get_func_arguments with zip(defaults, keys): the defaults go to the
\* first names
get_func_arguments_LeftAligned(f) ==
    [i \in 1..Len(f.args) |->
        IF i <= Len(f.defaults)
        THEN <<f.args[i], f.defaults[i]>>
        ELSE RequiredDict(f.args)[i]]

\* zip(defaults[::-1], reversed(keys)): the k-th default from the end goes
\* to the k-th name from the end; zip stops at the shorter of the two
get_func_arguments(f) ==
    LET n == Len(f.args)
        k == Len(f.defaults)
    IN [i \in 1..n |->
           IF n - i + 1 <= k
           THEN <<f.args[i], f.defaults[k - (n - i)]>>
           ELSE RequiredDict(f.args)[i]]

----------------------------------------------------------------------------
(* Widget classes and the Qt controls they wrap *)

\* type(v).__name__ as text
TypeName(v) ==
    CASE v.t = "bool" -> <<"b", "o", "o", "l">>
      [] v.t = "int" -> <<"i", "n", "t">>
      [] v.t = "float" -> <<"f", "l", "o", "a", "t">>
      [] v.t = "str" -> <<"s", "t", "r">>
      [] v.t = "NoneType" -> <<"N", "o", "n", "e", "T", "y", "p", "e">>
      [] v.t = "Custom" -> <<"C", "u", "s", "t", "o", "m">>
      [] OTHER -> <<"t", "y", "p", "e">>

\* generate_argument_widgets: the table type_widgets
type_widgets ==
    << << <<"b", "o", "o", "l">>, "BoolCheckBoxWidget" >>,
       << <<"s", "t", "r">>, "StringLineEditWidget" >>,
       << <<"i", "n", "t">>, "IntegerSpinBoxWidget" >>,
       << <<"f", "l", "o", "a", "t">>, "DoubleSpinBoxWidget" >>,
       << <<"p", "a", "t", "h">>, "StringFilePathWidget" >> >>

SpinClasses == {"IntegerSpinBoxWidget", "DoubleSpinBoxWidget"}
\* StringFilePathWidget inherits StringLineEditWidget
LineEditClasses == {"StringLineEditWidget", "StringFilePathWidget"}
TextClasses == LineEditClasses \cup {"StringTextEditWidget"}

\* whether the Qt setter of the control takes the Python value; otherwise the
\* binding raises TypeError (setChecked(bool), QSpinBox.setValue(int),
\* QDoubleSpinBox.setValue(float), setText(str))
Accepts(cls, val) ==
    CASE cls = "BoolCheckBoxWidget" -> val.t \in {"bool", "int"}
      [] cls = "IntegerSpinBoxWidget" -> val.t \in {"bool", "int"}
      [] cls = "DoubleSpinBoxWidget" -> val.t \in NumericTypes
      [] cls \in TextClasses -> val.t = "str"
      [] OTHER -> FALSE

\* QSpinBox.setValue keeps the value inside [minimum, maximum]
ClampInt(i) == IF i < SpinMinimum THEN SpinMinimum
               ELSE IF i > SpinMaximum THEN SpinMaximum ELSE i

\* QDoubleSpinBox.setValue rounds to SpinDecimals decimals, then bounds
RoundStep == FracUnit \div (10 ^ SpinDecimals)

RoundFloat(v) ==
    LET r == ((v.f + RoundStep \div 2) \div RoundStep) * RoundStep
    IN IF r >= FracUnit
       THEN FloatVal(IF v.n < 0 THEN v.n - 1 ELSE v.n + 1, 0)
       ELSE FloatVal(v.n, r)

ClampFloat(v) ==
    IF v.n <= SpinMinimum THEN FloatVal(SpinMinimum, 0)
    ELSE IF v.n >= SpinMaximum THEN FloatVal(SpinMaximum, 0)
    ELSE v

\* the value the control holds after its setter is given val
ControlValue(cls, val) ==
    CASE cls = "BoolCheckBoxWidget" -> BoolVal(Truthy(val))
      [] cls = "IntegerSpinBoxWidget" -> IntVal(ClampInt(val.n))
      [] cls = "DoubleSpinBoxWidget" -> ClampFloat(RoundFloat(val))
      [] OTHER -> val

\* whether the setter fires the signal connected to mark_as_modified:
\* stateChanged / valueChanged fire when the value changes, textChanged of a
\* QTextEdit on every setText, textEdited of a QLineEdit only on user input
SetterSignals(cls, old, new) ==
    CASE cls \in {"BoolCheckBoxWidget"} \cup SpinClasses -> new # old
      [] cls = "StringTextEditWidget" -> TRUE
      [] OTHER -> FALSE

----------------------------------------------------------------------------
(* ArgumentDialog.get_modified_values and preview_func_call *)

\* the loop of get_modified_values over generated_arg_widgets
RECURSIVE get_modified_values_loop(_, _, _)
get_modified_values_loop(widgets, args, kwargs) ==
    IF widgets = <<>> THEN [args |-> args, kwargs |-> kwargs]
    ELSE LET widget == Head(widgets)
         IN IF ~widget.was_modified
            THEN get_modified_values_loop(Tail(widgets), args, kwargs)
            ELSE IF widget.is_required
            THEN get_modified_values_loop(Tail(widgets), Append(args, widget.value), kwargs)
            ELSE get_modified_values_loop(Tail(widgets), args,
                                          DictSet(kwargs, widget.arg_name, widget.value))

\* get_modified_values without the "if not widget.was_modified: continue"
RECURSIVE get_all_values_loop(_, _, _)
get_all_values_loop(widgets, args, kwargs) ==
    IF widgets = <<>> THEN [args |-> args, kwargs |-> kwargs]
    ELSE LET widget == Head(widgets)
         IN IF widget.is_required
            THEN get_all_values_loop(Tail(widgets), Append(args, widget.value), kwargs)
            ELSE get_all_values_loop(Tail(widgets), args,
                                     DictSet(kwargs, widget.arg_name, widget.value))

get_all_values(widgets) == get_all_values_loop(widgets, <<>>, <<>>)

\* get_modified_values with args.insert(0, ...) in place of args.append(...)
RECURSIVE get_modified_values_reversed_loop(_, _, _)
get_modified_values_reversed_loop(widgets, args, kwargs) ==
    IF widgets = <<>> THEN [args |-> args, kwargs |-> kwargs]
    ELSE LET widget == Head(widgets)
         IN IF ~widget.was_modified
            THEN get_modified_values_reversed_loop(Tail(widgets), args, kwargs)
            ELSE IF widget.is_required
            THEN get_modified_values_reversed_loop(Tail(widgets),
                                                   <<widget.value>> \o args, kwargs)
            ELSE get_modified_values_reversed_loop(Tail(widgets), args,
                                                   DictSet(kwargs, widget.arg_name,
                                                           widget.value))

get_modified_values_reversed(widgets) ==
    get_modified_values_reversed_loop(widgets, <<>>, <<>>)

get_modified_values(widgets) == get_modified_values_loop(widgets, <<>>, <<>>)

\* isinstance(val, str_types)
IsStr(val) == val.t = "str"

\* the first loop of preview_func_call without "or kwarg_length" in the
\* condition of the separator
RECURSIVE PreviewArgs_NoKwargSeparator(_, _, _, _)
PreviewArgs_NoKwargSeparator(args, i, kwarg_length, empty_spaces) ==
    IF i > Len(args) THEN <<>>
    ELSE (IF IsStr(args[i]) THEN <<"'">> \o Format(args[i]) \o <<"'">>
          ELSE Format(args[i]))
         \o (IF Len(args) > 1 /\ i # Len(args)
             THEN <<",", "\n">> \o empty_spaces ELSE <<>>)
         \o PreviewArgs_NoKwargSeparator(args, i + 1, kwarg_length, empty_spaces)

\* the first loop of preview_func_call, from index i on
RECURSIVE PreviewArgs(_, _, _, _)
PreviewArgs(args, i, kwarg_length, empty_spaces) ==
    IF i > Len(args) THEN <<>>
    ELSE (IF IsStr(args[i]) THEN <<"'">> \o Format(args[i]) \o <<"'">>
          ELSE Format(args[i]))
         \o (IF (Len(args) > 1 /\ i # Len(args)) \/ kwarg_length # 0
             THEN <<",", "\n">> \o empty_spaces ELSE <<>>)
         \o PreviewArgs(args, i + 1, kwarg_length, empty_spaces)

\* the second loop of preview_func_call, from index i on
RECURSIVE PreviewKwargs(_, _, _)
PreviewKwargs(kwargs, i, empty_spaces) ==
    IF i > Len(kwargs) THEN <<>>
    ELSE kwargs[i][1] \o <<"=">>
         \o (IF IsStr(kwargs[i][2]) THEN <<"'">> \o Format(kwargs[i][2]) \o <<"'">>
             ELSE Format(kwargs[i][2]))
         \o (IF Len(kwargs) > 1 /\ i # Len(kwargs)
             THEN <<",", "\n">> \o empty_spaces ELSE <<>>)
         \o PreviewKwargs(kwargs, i + 1, empty_spaces)

\* the text preview_func_call puts into func_preview_text_TE
preview_func_call(name, widgets) ==
    LET mv == get_modified_values(widgets)
        func_string == name \o <<"(">>
        empty_spaces == Spaces(Len(func_string))
    IN func_string
       \o PreviewArgs(mv.args, 1, Len(mv.kwargs), empty_spaces)
       \o PreviewKwargs(mv.kwargs, 1, empty_spaces)
       \o (IF Len(mv.args) + Len(mv.kwargs) > 1
           THEN <<"\n">> \o empty_spaces \o <<")">> ELSE <<")">>)

----------------------------------------------------------------------------
(* ArgumentWidget: operations on a dialog d = [name, widgets, preview]      *)

\* ArgumentWidget.mark_as_required (with the StringLineEditWidget override)
mark_as_required(w) ==
    [w EXCEPT !.style = IF w.is_required THEN "required" ELSE "default",
              !.placeholder = IF w.is_required /\ w.cls \in LineEditClasses
                              THEN "REQUIRED" ELSE @]

\* ArgumentWidget.__init__ followed by build_widget of the class
NewWidget(cls, name, default_value, is_required, tool_tip) ==
    mark_as_required([arg_name |-> name,
                      cls |-> cls,
                      default_value |-> default_value,
                      is_required |-> is_required,
                      was_modified |-> FALSE,
                      value |-> ControlValue(cls, default_value),
                      style |-> "default",
                      placeholder |-> "",
                      tool_tip |-> tool_tip])

\* value_modified with no slot connected to it
EmitValueModified_Unconnected(d) == d

\* value_modified.emit(): the slot connected to it is preview_func_call
EmitValueModified(d) ==
    [d EXCEPT !.preview = preview_func_call(d.name, d.widgets)]

\* ArgumentWidget.mark_as_modified of widget i
mark_as_modified(d, i) ==
    LET flagged == [d EXCEPT !.widgets[i].was_modified = TRUE]
        emitted == EmitValueModified(flagged)
    IN [emitted EXCEPT !.widgets[i].style = "modified"]

\* set_argument_value of widget i (the value is one its setter accepts)
set_argument_value(d, i, val) ==
    LET w == d.widgets[i]
        new == ControlValue(w.cls, val)
        stored == [d EXCEPT !.widgets[i].value = new]
    IN IF w.cls \in LineEditClasses
       THEN mark_as_modified(stored, i)
       ELSE IF SetterSignals(w.cls, w.value, new)
       THEN mark_as_modified(stored, i)
       ELSE stored

\* set_value_to_default without the closing mark_as_required()
set_value_to_default_NoRestyle(d, i) ==
    LET restored == set_argument_value(d, i, d.widgets[i].default_value)
        cleared == [restored EXCEPT !.widgets[i].was_modified = FALSE]
    IN EmitValueModified(cleared)

\* ArgumentWidget.set_value_to_default of widget i
set_value_to_default(d, i) ==
    LET restored == set_argument_value(d, i, d.widgets[i].default_value)
        cleared == [restored EXCEPT !.widgets[i].was_modified = FALSE]
        emitted == EmitValueModified(cleared)
    IN [emitted EXCEPT !.widgets[i] = mark_as_required(@)]

\* a user edit of the control of widget i to the value new: the control's
\* change signal (stateChanged, valueChanged, textEdited, textChanged) runs
\* mark_as_modified
UserEdit(d, i, new) ==
    mark_as_modified([d EXCEPT !.widgets[i].value = new], i)

\* browse_file_path without the test "if file_path:"
browse_file_path_Unconditional(d, i, file_path) ==
    mark_as_modified(set_argument_value(d, i, StrVal(file_path)), i)

\* StringFilePathWidget.browse_file_path, given the path chosen in the file
\* dialog (empty when the dialog is cancelled)
browse_file_path(d, i, file_path) ==
    IF file_path # <<>>
    THEN mark_as_modified(set_argument_value(d, i, StrVal(file_path)), i)
    ELSE d

----------------------------------------------------------------------------
(* generate_argument_widgets: resolution of the widget class of a parameter *)

\* the fallback instance with a hard-wired int in place of default_arg_type()
FallbackInstance_AlwaysInt(arg_type) == IntVal(0)

\* the fallback instance with str() for every type that is not a builtin
FallbackInstance_StrForOthers(arg_type) ==
    CASE arg_type = "int" -> IntVal(0)
      [] arg_type = "float" -> FloatVal(0, 0)
      [] arg_type = "bool" -> BoolVal(FALSE)
      [] OTHER -> StrVal(<<>>)

\* self.default_arg_type() if self.default_arg_type else None
FallbackInstance(arg_type) ==
    CASE arg_type = "str" -> StrVal(<<>>)
      [] arg_type = "int" -> IntVal(0)
      [] arg_type = "float" -> FloatVal(0, 0)
      [] arg_type = "bool" -> BoolVal(FALSE)
      [] arg_type = "Custom" -> CustomVal
      [] OTHER -> NoneVal

\* is_required and the default_value in use after the sentinel is replaced
IsRequired(default_value) == default_value = RequiresValueType

ResolvedDefault(default_value, arg_type) ==
    IF IsRequired(default_value) THEN FallbackInstance(arg_type) ELSE default_value

\* the tool tip of a parameter without doc line: "parameter un-documented"
UndocumentedToolTip ==
    <<"p", "a", "r", "a", "m", "e", "t", "e", "r", " ",
      "u", "n", "-", "d", "o", "c", "u", "m", "e", "n", "t", "e", "d">>

\* arg_widget_cls with the doc-string type looked up before the override
ResolveWidgetClass_DocFirst(overrides, doc_types, param_name, default_value) ==
    LET doc_string_type == DictGet(doc_types, param_name, Absent)
        by_doc == IF doc_string_type # Absent
                  THEN DictGet(type_widgets, doc_string_type, "None")
                  ELSE "None"
        by_override == IF by_doc = "None"
                       THEN DictGet(overrides, param_name, "None")
                       ELSE by_doc
    IN IF by_override = "None"
       THEN DictGet(type_widgets, TypeName(default_value), "None")
       ELSE by_override

\* arg_widget_cls without the lookup of type(default_value).__name__
ResolveWidgetClass_NoTypeLookup(overrides, doc_types, param_name, default_value) ==
    LET by_override == DictGet(overrides, param_name, "None")
        doc_string_type == DictGet(doc_types, param_name, Absent)
    IN IF by_override = "None" /\ doc_string_type # Absent
       THEN DictGet(type_widgets, doc_string_type, "None")
       ELSE by_override

\* arg_widget_cls: override, then doc-string type, then type of the default
ResolveWidgetClass(overrides, doc_types, param_name, default_value) ==
    LET by_override == DictGet(overrides, param_name, "None")
        doc_string_type == DictGet(doc_types, param_name, Absent)
        by_doc == IF by_override = "None" /\ doc_string_type # Absent
                  THEN DictGet(type_widgets, doc_string_type, "None")
                  ELSE by_override
    IN IF by_doc = "None"
       THEN DictGet(type_widgets, TypeName(default_value), "None")
       ELSE by_doc

----------------------------------------------------------------------------
(* Calling the target: Python's binding of args and kwargs to the signature *)

\* the names that get a value from the positional list
BoundByPosition(f, args) ==
    {f.args[i] : i \in 1..(IF Len(args) < Len(f.args) THEN Len(args) ELSE Len(f.args))}

\* func(*args, **kwargs) raises TypeError before the body runs: too many
\* positional values, a keyword that is no parameter or is already bound by
\* position, or a parameter without default left unbound
BindFails(f, args, kwargs) ==
    LET params == get_func_arguments(f)
    IN \/ Len(args) > Len(f.args)
       \/ \E j \in 1..Len(kwargs) :
              \/ ~DictHas(params, kwargs[j][1])
              \/ kwargs[j][1] \in BoundByPosition(f, args)
       \/ \E i \in 1..Len(params) :
              /\ i > Len(args)
              /\ IsRequired(params[i][2])
              /\ ~DictHas(kwargs, params[i][1])

\* what func(*args, **kwargs) raises ("none" when it returns), for a target
\* whose body ends in outcome
CallRaises(f, args, kwargs, outcome) ==
    IF BindFails(f, args, kwargs) THEN "TypeError" ELSE outcome

\* run_func with the call wrapped in try / except and one retry
run_func_Retrying(f, widgets, outcome) ==
    LET mv == get_modified_values(widgets)
        raised == CallRaises(f, mv.args, mv.kwargs, outcome)
        call == [args |-> mv.args, kwargs |-> mv.kwargs, raised |-> raised]
    IN [invoked |-> IF raised = "none" THEN <<call>> ELSE <<call, call>>,
        propagated |-> "none",
        widgets |-> widgets]

\* ArgumentDialog.run_func: one call of func with the modified values; no
\* try / except, so what the call raises leaves run_func
run_func(f, widgets, outcome) ==
    LET mv == get_modified_values(widgets)
        raised == CallRaises(f, mv.args, mv.kwargs, outcome)
    IN [invoked |-> <<[args |-> mv.args, kwargs |-> mv.kwargs, raised |-> raised]>>,
        propagated |-> raised,
        widgets |-> widgets]

----------------------------------------------------------------------------
(* The callables and options the dialog is built with *)

n_a == <<"a">>
n_b == <<"b">>
n_x == <<"x">>
n_fp == <<"f", "p">>
n_on == <<"o", "n">>
n_k == <<"k">>
n_w == <<"w">>
n_y == <<"y">>
n_z == <<"z">>
n_n == <<"n">>
n_r == <<"r">>
n_path == <<"p", "a", "t", "h">>
n_s == <<"s">>

\* def f(a, b=1)
Func_f == [name |-> <<"f">>, args |-> <<n_a, n_b>>, defaults |-> <<IntVal(1)>>,
           doc |-> <<>>]

\* def g(x, fp="", on=False, k=None, w=1.0) with a doc string
Func_g ==
    [name |-> <<"g">>,
     args |-> <<n_x, n_fp, n_on, n_k, n_w>>,
     defaults |-> <<StrVal(<<>>), BoolVal(FALSE), NoneVal, FloatVal(1, 0)>>,
     doc |-> << <<"L", "o", "a", "d">>,
                <<>>,
                ParamPrefix \o <<"x", ":", " ", "<", "p", "a", "t", "h", ">">>,
                ParamPrefix \o <<"f", "p", ":", " ", "a", " ", "<", "p", "a", "t", "h", ">">>,
                ParamPrefix \o <<"o", "n", ":">>,
                ParamPrefix \o <<"w", ":", " ", "<", "r", "e", "a", "l", ">">> >>]

\* def h(y, z, n=1000000000, r=0.12346) with a doc string
Func_h ==
    [name |-> <<"h">>,
     args |-> <<n_y, n_z, n_n, n_r>>,
     defaults |-> <<IntVal(1000000000), FloatVal(0, 12346)>>,
     doc |-> << ParamPrefix \o <<"z", ":", " ", "<", "i", "n", "t", ">">> >>]

\* def q(path, s="") with a doc string
Func_q ==
    [name |-> <<"q">>,
     args |-> <<n_path, n_s>>,
     defaults |-> <<StrVal(<<>>)>>,
     doc |-> << ParamPrefix \o <<"p", "a", "t", "h", ":", " ", "a", " ", "f", "i", "l", "e",
                                 " ", "t", "o", " ", "l", "o", "a", "d", " ",
                                 "<", "p", "a", "t", "h", ">">> >>]

Funcs == {Func_f, Func_g, Func_h, Func_q}

\* the callable a function name refers to
Callable(name) == CHOOSE f \in Funcs : f.name = name

\* argument_widgets of main()
OverrideChoices ==
    { <<>>,
      << <<n_x, "StringTextEditWidget">>, <<n_b, "DoubleSpinBoxWidget">> >> }

\* a text with a quote, a comma and a line break: ',\n  s='
QuotedText == <<"'", ",", "\n", " ", " ", "s", "=", "'">>

\* default_values of main(): the seeds of fp, on and w equal their defaults
SeedChoices ==
    { <<>>,
      << <<n_a, StrVal(<<"5">>)>>, <<n_b, IntVal(9)>>, <<n_x, StrVal(<<"5">>)>>,
         <<n_fp, StrVal(<<>>)>>, <<n_on, BoolVal(FALSE)>>, <<n_w, FloatVal(1, 0)>>,
         <<n_n, IntVal(5)>>, <<n_path, StrVal(QuotedText)>>,
         <<n_s, StrVal(QuotedText)>> >> }

\* default_arg_type of main(): a type (str, int, a class of the caller), or None
ArgTypeChoices == {"str", "int", "Custom", "None"}

\* what the user can enter
TypeChars == {"5"}
IntInputs == {IntVal(5), IntVal(9)}
FloatInputs == {FloatVal(2, 50000)}
BrowsePaths == {<<>>, <<"/">>}
\* the numbers a spin box of the class lets the user enter
SpinInputs(cls) ==
    IF cls = "IntegerSpinBoxWidget" THEN IntInputs ELSE IntInputs \cup FloatInputs
\* what the body of the target does once it is entered
BodyOutcomes == {"none", "Exception"}

----------------------------------------------------------------------------
(* The state machine *)

Dialog == [name |-> func, widgets |-> generated_arg_widgets,
           preview |-> func_preview_text_TE]

\* the callable behind ArgumentDialog.func
Target == Callable(func)

Params == get_func_arguments(Target)

\* ArgumentDialog.__init__ up to the call of generate_argument_widgets
Init ==
    /\ func \in {f.name : f \in Funcs}
    /\ input_arg_widget_dict \in OverrideChoices
    /\ default_values \in SeedChoices
    /\ default_arg_type \in ArgTypeChoices
    /\ generated_arg_widgets = <<>>
    /\ func_preview_text_TE = <<>>
    /\ pc = "generate"
    /\ param_idx = 1
    /\ invoked = <<>>
    /\ propagated = "none"
    /\ top_level_widgets = <<>>

Config == <<func, input_arg_widget_dict, default_values, default_arg_type>>

\* the event handler ran no call of func and let no exception out
Quiet == invoked' = <<>> /\ propagated' = "none"

\* one iteration of the loop of generate_argument_widgets, up to the append
\* to generated_arg_widgets
CreateWidget ==
    /\ pc = "generate"
    /\ param_idx <= Len(Params)
    /\ LET param_name == Params[param_idx][1]
           is_required == IsRequired(Params[param_idx][2])
           default_value == ResolvedDefault(Params[param_idx][2], default_arg_type)
           docs == ParseDocString(Target)
           arg_widget_cls == ResolveWidgetClass(input_arg_widget_dict, docs.types,
                                                param_name, default_value)
           tool_tip == DictGet(docs.tips, param_name, UndocumentedToolTip)
       IN IF arg_widget_cls = "None"
          THEN /\ param_idx' = param_idx + 1
               /\ UNCHANGED <<generated_arg_widgets, pc, propagated>>
          ELSE IF Accepts(arg_widget_cls, default_value)
          THEN /\ generated_arg_widgets' =
                      Append(generated_arg_widgets,
                             NewWidget(arg_widget_cls, param_name, default_value,
                                       is_required, tool_tip))
               /\ pc' = "seed"
               /\ UNCHANGED <<param_idx, propagated>>
          ELSE /\ pc' = "failed"
               /\ propagated' = "TypeError"
               /\ UNCHANGED <<generated_arg_widgets, param_idx>>
    /\ UNCHANGED <<Config, func_preview_text_TE, invoked, top_level_widgets>>

\* the end of the iteration: the value defined in default_values is set on
\* the widget just appended
SeedWidget ==
    /\ pc = "seed"
    /\ LET i == Len(generated_arg_widgets)
           param_name == generated_arg_widgets[i].arg_name
           seed == DictGet(default_values, param_name, NoneVal)
       IN IF ~DictHas(default_values, param_name)
          THEN /\ pc' = "generate"
               /\ param_idx' = param_idx + 1
               /\ UNCHANGED <<generated_arg_widgets, func_preview_text_TE, propagated>>
          ELSE IF Accepts(generated_arg_widgets[i].cls, seed)
          THEN LET d == set_argument_value(Dialog, i, seed)
               IN /\ generated_arg_widgets' = d.widgets
                  /\ func_preview_text_TE' = d.preview
                  /\ pc' = "generate"
                  /\ param_idx' = param_idx + 1
                  /\ UNCHANGED propagated
          ELSE /\ pc' = "failed"
               /\ propagated' = "TypeError"
               /\ UNCHANGED <<generated_arg_widgets, func_preview_text_TE, param_idx>>
    /\ UNCHANGED <<Config, invoked, top_level_widgets>>

\* ArgumentDialog.__init__ after generate_argument_widgets: preview_func_call
FinishInit ==
    /\ pc = "generate"
    /\ param_idx > Len(Params)
    /\ func_preview_text_TE' = preview_func_call(func, generated_arg_widgets)
    /\ pc' = "ready"
    /\ UNCHANGED <<Config, generated_arg_widgets, param_idx, invoked, propagated,
                   top_level_widgets>>

\* the state a handler leaves
Handled(d) ==
    /\ generated_arg_widgets' = d.widgets
    /\ func_preview_text_TE' = d.preview
    /\ Quiet
    /\ UNCHANGED <<Config, pc, param_idx, top_level_widgets>>

\* the user clicks the check box of widget i
ToggleCheckBox(i) ==
    /\ pc = "ready"
    /\ generated_arg_widgets[i].cls = "BoolCheckBoxWidget"
    /\ Handled(UserEdit(Dialog, i, BoolVal(generated_arg_widgets[i].value.n = 0)))

\* the user changes the value of the spin box of widget i
EditSpinBox(i, val) ==
    /\ pc = "ready"
    /\ generated_arg_widgets[i].cls \in SpinClasses
    /\ val \in SpinInputs(generated_arg_widgets[i].cls)
    /\ ControlValue(generated_arg_widgets[i].cls, val) # generated_arg_widgets[i].value
    /\ Handled(UserEdit(Dialog, i, ControlValue(generated_arg_widgets[i].cls, val)))

\* the user types a character at the end of the text of widget i
TypeChar(i, c) ==
    /\ pc = "ready"
    /\ generated_arg_widgets[i].cls \in TextClasses
    /\ Len(generated_arg_widgets[i].value.s) < MaxStrLen
    /\ Handled(UserEdit(Dialog, i, StrVal(Append(generated_arg_widgets[i].value.s, c))))

\* the user deletes the last character of the text of widget i
Backspace(i) ==
    /\ pc = "ready"
    /\ generated_arg_widgets[i].cls \in TextClasses
    /\ generated_arg_widgets[i].value.s # <<>>
    /\ Handled(UserEdit(Dialog, i,
                        StrVal(SubSeq(generated_arg_widgets[i].value.s, 1,
                                      Len(generated_arg_widgets[i].value.s) - 1))))

\* the user presses the browse button of widget i and the file dialog
\* returns file_path
BrowseFile(i, file_path) ==
    /\ pc = "ready"
    /\ generated_arg_widgets[i].cls = "StringFilePathWidget"
    /\ Handled(browse_file_path(Dialog, i, file_path))

\* the user picks "Reset Value" in the context menu of widget i
ResetValue(i) ==
    /\ pc = "ready"
    /\ Handled(set_value_to_default(Dialog, i))

\* the Run button is clicked: ArgumentDialog.run_func, with a target whose
\* body ends in outcome
ClickRun(outcome) ==
    /\ pc = "ready"
    /\ LET r == run_func(Target, generated_arg_widgets, outcome)
       IN /\ invoked' = r.invoked
          /\ propagated' = r.propagated
          /\ generated_arg_widgets' = r.widgets
    /\ UNCHANGED <<Config, func_preview_text_TE, pc, param_idx, top_level_widgets>>

Widgets == 1..Len(generated_arg_widgets)

Next ==
    \/ CreateWidget
    \/ SeedWidget
    \/ FinishInit
    \/ \E i \in Widgets : ToggleCheckBox(i)
    \/ \E i \in Widgets : \E val \in IntInputs \cup FloatInputs : EditSpinBox(i, val)
    \/ \E i \in Widgets : \E c \in TypeChars : TypeChar(i, c)
    \/ \E i \in Widgets : Backspace(i)
    \/ \E i \in Widgets : \E file_path \in BrowsePaths : BrowseFile(i, file_path)
    \/ \E i \in Widgets : ResetValue(i)
    \/ \E outcome \in BodyOutcomes : ClickRun(outcome)

Spec == Init /\ [][Next]_vars

----------------------------------------------------------------------------
(* The windows of the application: dialogs are constructed and closed; the  *)
(* form inside a dialog is not followed here                                *)

\* most top-level widgets alive at a time
MaxWindows == 3

\* the functions dialogs are constructed for
TargetFuncs == {f.name : f \in Funcs}

\* a top-level widget: its class, its attribute func (Absent when it has
\* none), whether it is shown, and whether deleteLater() was called on it
TopLevelWidget(cls, target_func, visible) ==
    [cls |-> cls, func |-> target_func, visible |-> visible, delete_later |-> FALSE]

\* the main window get_app_window() finds inside Maya
MainWindow == TopLevelWidget("QMainWindow", Absent, TRUE)

\* delete_window that closes every ArgumentDialog, whatever its func
delete_window_AnyFunc(widgets, target_func) ==
    [i \in 1..Len(widgets) |->
        IF widgets[i].cls = "ArgumentDialog" /\ widgets[i].func # Absent
        THEN [widgets[i] EXCEPT !.delete_later = TRUE, !.visible = FALSE]
        ELSE widgets[i]]

\* delete_window(object_to_delete, target_func) for an ArgumentDialog under
\* construction: deleteLater() and close() on every top-level widget of
\* that class that has the attribute func equal to target_func
delete_window(widgets, target_func) ==
    [i \in 1..Len(widgets) |->
        IF /\ widgets[i].cls = "ArgumentDialog"
           /\ widgets[i].func # Absent
           /\ widgets[i].func = target_func
        THEN [widgets[i] EXCEPT !.delete_later = TRUE, !.visible = FALSE]
        ELSE widgets[i]]

\* the application starts with no window, or inside Maya with its main window
AppInit ==
    /\ top_level_widgets \in {<<>>, <<MainWindow>>}
    /\ func = <<"f">>
    /\ input_arg_widget_dict = <<>>
    /\ default_values = <<>>
    /\ default_arg_type = "str"
    /\ generated_arg_widgets = <<>>
    /\ func_preview_text_TE = <<>>
    /\ pc = "generate"
    /\ param_idx = 1
    /\ invoked = <<>>
    /\ propagated = "none"

\* ArgumentDialog(target_func): delete_window, then QDialog.__init__ makes
\* the new top-level widget; shown says whether the caller goes on to show()
\* it, as main() does, or not (generate_argument_widgets raised, or the
\* caller keeps the dialog hidden)
ConstructDialog(target_func, shown) ==
    /\ Len(top_level_widgets) < MaxWindows
    /\ top_level_widgets' =
           Append(delete_window(top_level_widgets, target_func),
                  TopLevelWidget("ArgumentDialog", target_func, shown))
    /\ UNCHANGED form_vars

\* the user closes dialog i: QDialog.close() hides it
CloseDialog(i) ==
    /\ top_level_widgets[i].cls = "ArgumentDialog"
    /\ top_level_widgets[i].visible
    /\ top_level_widgets' = [top_level_widgets EXCEPT ![i].visible = FALSE]
    /\ UNCHANGED form_vars

\* the event loop runs the deferred deletes of deleteLater()
ProcessDeferredDeletes ==
    /\ \E i \in 1..Len(top_level_widgets) : top_level_widgets[i].delete_later
    /\ top_level_widgets' =
           SelectSeq(top_level_widgets, LAMBDA w : ~w.delete_later)
    /\ UNCHANGED form_vars

AppNext ==
    \/ \E target_func \in TargetFuncs : \E shown \in BOOLEAN :
           ConstructDialog(target_func, shown)
    \/ \E i \in 1..Len(top_level_widgets) : CloseDialog(i)
    \/ ProcessDeferredDeletes

AppSpec == AppInit /\ [][AppNext]_vars

----------------------------------------------------------------------------
(* Properties *)

ModifiedWidgets == {i \in Widgets : generated_arg_widgets[i].was_modified}
UnmodifiedWidgets == Widgets \ ModifiedWidgets

IsPositional(w) == w.was_modified /\ w.is_required
IsKeyword(w) == w.was_modified /\ ~w.is_required

\* C1: in every reachable state the positional list and the keyword map of
\* get_modified_values hold no value of a widget whose was_modified is false:
\* every entry is the value of a modified widget, and there are no more
\* entries than modified widgets.
C1_NoValueOfUnmodifiedWidget ==
    LET mv == get_modified_values(generated_arg_widgets)
    IN /\ Len(mv.args) + Len(mv.kwargs) <= Cardinality(ModifiedWidgets)
       /\ \A j \in 1..Len(mv.args) :
              \E i \in ModifiedWidgets : generated_arg_widgets[i].value = mv.args[j]
       /\ \A j \in 1..Len(mv.kwargs) :
              \E i \in ModifiedWidgets :
                  /\ generated_arg_widgets[i].arg_name = mv.kwargs[j][1]
                  /\ generated_arg_widgets[i].value = mv.kwargs[j][2]

\* a form in use with a modified and an unmodified widget of each routing
C1_Witness ==
    /\ pc = "ready"
    /\ \E i \in UnmodifiedWidgets : generated_arg_widgets[i].is_required
    /\ \E i \in UnmodifiedWidgets : ~generated_arg_widgets[i].is_required
    /\ \E i \in ModifiedWidgets : generated_arg_widgets[i].is_required
    /\ \E i \in ModifiedWidgets : ~generated_arg_widgets[i].is_required

\* C2: the positional list is exactly the values of the modified required
\* widgets in declaration order, and the keyword map is exactly the entries
\* name -> value of the modified non-required widgets, in declaration order.
C2_RoutingOfModifiedWidgets ==
    LET mv == get_modified_values(generated_arg_widgets)
        positional == SelectSeq(generated_arg_widgets, IsPositional)
        keyword == SelectSeq(generated_arg_widgets, IsKeyword)
    IN /\ mv.args = [j \in 1..Len(positional) |-> positional[j].value]
       /\ mv.kwargs = [j \in 1..Len(keyword) |->
                          <<keyword[j].arg_name, keyword[j].value>>]

\* two modified required widgets with different values, a modified
\* non-required one and an unmodified one
C2_Witness ==
    /\ pc = "ready"
    /\ \E i, j \in ModifiedWidgets :
           /\ i < j
           /\ generated_arg_widgets[i].is_required
           /\ generated_arg_widgets[j].is_required
           /\ generated_arg_widgets[i].value # generated_arg_widgets[j].value
    /\ \E i \in ModifiedWidgets : ~generated_arg_widgets[i].is_required
    /\ UnmodifiedWidgets # {}

\* the widgets whose parameter has an entry in default_values
SeededWidgets == {i \in Widgets : DictHas(default_values, generated_arg_widgets[i].arg_name)}

\* C3: when form construction completes, every widget of a parameter that
\* has an entry in default_values shows the seed value, has was_modified
\* false, and so is absent from get_modified_values.
C3_SeedingLeavesUnmodified ==
    [][(pc = "generate" /\ pc' = "ready") =>
          /\ get_modified_values(generated_arg_widgets') = [args |-> <<>>, kwargs |-> <<>>]
          /\ \A i \in SeededWidgets :
                 /\ PyEq(generated_arg_widgets'[i].value,
                         DictGet(default_values, generated_arg_widgets[i].arg_name, NoneVal))
                 /\ ~generated_arg_widgets'[i].was_modified]_vars

\* C4: the reset action leaves the widget with a value equal to its
\* default_value and with was_modified false, whatever was edited before.
C4_ResetRestoresDefault ==
    [][\A i \in Widgets :
          ResetValue(i) =>
              /\ PyEq(generated_arg_widgets'[i].value, generated_arg_widgets[i].default_value)
              /\ ~generated_arg_widgets'[i].was_modified]_vars

\* a user edit of widget i: a click on its check box, a new spin value, a
\* typed or deleted character, or a file chosen in the browse dialog
UserEditStep(i) ==
    \/ ToggleCheckBox(i)
    \/ \E val \in IntInputs \cup FloatInputs : EditSpinBox(i, val)
    \/ \E c \in TypeChars : TypeChar(i, c)
    \/ Backspace(i)
    \/ \E file_path \in BrowsePaths \ {<<>>} : BrowseFile(i, file_path)

\* C5: was_modified is false from construction or the last reset until a user
\* edit; a user edit (or file-browse selection) sets it; it stays true until
\* the next reset; and nothing but a user edit of the widget turns it from
\* false to true.
C5_ModifiedOnlyByUserEdit ==
    [][/\ \A i \in 1..Len(generated_arg_widgets') :
              i \notin Widgets => ~generated_arg_widgets'[i].was_modified
       /\ \A i \in Widgets :
              /\ UserEditStep(i) => generated_arg_widgets'[i].was_modified
              /\ ResetValue(i) => ~generated_arg_widgets'[i].was_modified
              /\ (generated_arg_widgets[i].was_modified /\ ~ResetValue(i))
                     => generated_arg_widgets'[i].was_modified
              /\ (~generated_arg_widgets[i].was_modified
                      /\ generated_arg_widgets'[i].was_modified)
                     => UserEditStep(i)]_vars

\* the state of the three-state machine a widget is in
WidgetState(w) ==
    IF w.was_modified THEN "modified"
    ELSE IF w.is_required THEN "required-pending" ELSE "default"

\* the state a widget starts in and returns to on reset
RestState(w) == IF w.is_required THEN "required-pending" ELSE "default"

\* the style sheet that renders a state
StyleOfState(state) ==
    CASE state = "modified" -> "modified"
      [] state = "required-pending" -> "required"
      [] OTHER -> "default"

\* C6: a widget starts in required-pending if is_required, else in default;
\* a user edit leads to modified from any state; a reset leads back to
\* required-pending / default from any state; and in every state a handler
\* leaves, the rendered style is the one of the widget's state.
C6_ThreeStateMachine ==
    /\ [](\A i \in Widgets :
              generated_arg_widgets[i].style
                  = StyleOfState(WidgetState(generated_arg_widgets[i])))
    /\ [][/\ \A i \in 1..Len(generated_arg_widgets') :
                 i \notin Widgets =>
                     WidgetState(generated_arg_widgets'[i])
                         = RestState(generated_arg_widgets'[i])
          /\ \A i \in Widgets :
                 /\ generated_arg_widgets'[i].is_required
                        = generated_arg_widgets[i].is_required
                 /\ \/ WidgetState(generated_arg_widgets'[i]) = "modified"
                    \/ ~UserEditStep(i)
                 /\ \/ WidgetState(generated_arg_widgets'[i])
                           = RestState(generated_arg_widgets[i])
                    \/ ~ResetValue(i)]_vars

\* a required widget that was edited and then reset, beside a modified one
C6_Witness ==
    /\ pc = "ready"
    /\ \E i \in Widgets :
           /\ generated_arg_widgets[i].is_required
           /\ generated_arg_widgets[i].style = "required"
           /\ \E j \in Widgets : generated_arg_widgets[j].style = "modified"
           /\ \E j \in Widgets : generated_arg_widgets[j].style = "default"

\* C7: once the form is built, after every handler the preview pane shows the
\* rendering of what get_modified_values returns in that state.
C7_PreviewInLockStep ==
    pc = "ready" =>
        func_preview_text_TE = preview_func_call(func, generated_arg_widgets)

\* a form whose preview shows a positional and a keyword argument while
\* another widget is unmodified
C7_Witness ==
    /\ pc = "ready"
    /\ Len(get_modified_values(generated_arg_widgets).args) >= 1
    /\ Len(get_modified_values(generated_arg_widgets).kwargs) >= 1
    /\ UnmodifiedWidgets # {}
    /\ func_preview_text_TE # func \o <<"(", ")">>

\* C8: the run action calls the target exactly once, with the positional
\* list and keyword map get_modified_values returns at that moment; what the
\* call raises leaves run_func unchanged, with no second call; and no widget
\* changes, whether the call returns or raises.
C8_RunCallsOnceAndPropagates ==
    [][\A outcome \in BodyOutcomes :
          \/ /\ Len(invoked') = 1
             /\ invoked'[1].args = get_modified_values(generated_arg_widgets).args
             /\ invoked'[1].kwargs = get_modified_values(generated_arg_widgets).kwargs
             /\ invoked'[1].raised
                    = CallRaises(Target, invoked'[1].args, invoked'[1].kwargs, outcome)
             /\ propagated' = invoked'[1].raised
             /\ generated_arg_widgets' = generated_arg_widgets
          \/ ~ClickRun(outcome)]_vars

\* a run whose target raised, called with a positional and a keyword value
C8_Witness ==
    /\ pc = "ready"
    /\ Len(invoked) = 1
    /\ propagated = "Exception"
    /\ Len(invoked[1].args) >= 1
    /\ Len(invoked[1].kwargs) >= 1

\* the form of f(a, b=1) built with the default options of main()
FormOfFWithDefaults ==
    /\ pc = "ready"
    /\ func = <<"f">>
    /\ input_arg_widget_dict = <<>>
    /\ default_values = <<>>
    /\ default_arg_type = "str"

\* widget i was edited by the user and shows the text txt
EditedTo(i, txt) ==
    /\ generated_arg_widgets[i].was_modified
    /\ Format(generated_arg_widgets[i].value) = txt

\* C9 as claimed: for f(a, b=1) with the default options, no edit gives
\* ([], {}), a edited to 5 gives ([5], {}) with the integer 5, and b then
\* edited to 9 gives ([5], {"b": 9}).
C9_ScenarioWithInteger ==
    FormOfFWithDefaults =>
        LET mv == get_modified_values(generated_arg_widgets)
        IN /\ ModifiedWidgets = {} => mv = [args |-> <<>>, kwargs |-> <<>>]
           /\ (EditedTo(1, <<"5">>) /\ ModifiedWidgets = {1})
                  => mv = [args |-> <<IntVal(5)>>, kwargs |-> <<>>]
           /\ (EditedTo(1, <<"5">>) /\ EditedTo(2, <<"9">>))
                  => mv = [args |-> <<IntVal(5)>>, kwargs |-> << <<n_b, IntVal(9)>> >>]

\* C9 amended: the same scenario, where the positional value of a is the
\* text '5' of its line edit: ([], {}), (['5'], {}), (['5'], {"b": 9}).
C9_ScenarioWithText ==
    FormOfFWithDefaults =>
        LET mv == get_modified_values(generated_arg_widgets)
        IN /\ ModifiedWidgets = {} => mv = [args |-> <<>>, kwargs |-> <<>>]
           /\ (EditedTo(1, <<"5">>) /\ ModifiedWidgets = {1})
                  => mv = [args |-> <<StrVal(<<"5">>)>>, kwargs |-> <<>>]
           /\ (EditedTo(1, <<"5">>) /\ EditedTo(2, <<"9">>))
                  => mv = [args |-> <<StrVal(<<"5">>)>>,
                           kwargs |-> << <<n_b, IntVal(9)>> >>]

\* a edited to 5 and b edited to 9
C9_Witness ==
    /\ FormOfFWithDefaults
    /\ generated_arg_widgets[1].arg_name = n_a
    /\ generated_arg_widgets[2].arg_name = n_b
    /\ EditedTo(1, <<"5">>)
    /\ EditedTo(2, <<"9">>)

\* the widget class the three-step rule gives parameter p: the override for
\* its name, else the table entry of its doc tag, else the table entry of the
\* type name of its resolved default ("None" when there is none)
ClassByRule(p) ==
    LET param_name == Params[p][1]
        tag == DictGet(ParseDocString(Target).types, param_name, Absent)
        default_value == ResolvedDefault(Params[p][2], default_arg_type)
    IN IF DictHas(input_arg_widget_dict, param_name)
       THEN DictGet(input_arg_widget_dict, param_name, "None")
       ELSE IF tag # Absent /\ DictHas(type_widgets, tag)
       THEN DictGet(type_widgets, tag, "None")
       ELSE IF DictHas(type_widgets, TypeName(default_value))
       THEN DictGet(type_widgets, TypeName(default_value), "None")
       ELSE "None"

WidgetOf(p) == {i \in Widgets : generated_arg_widgets[i].arg_name = Params[p][1]}

\* C10: the class of every widget is the first match of override, doc tag
\* in the table, type name of the default in the table; once the form is
\* built every parameter the rule resolves has its widget and no other has.
C10_ResolutionOrder ==
    /\ \A p \in 1..Len(Params) : \A i \in WidgetOf(p) :
           generated_arg_widgets[i].cls = ClassByRule(p)
    /\ pc = "ready" =>
           \A p \in 1..Len(Params) : (WidgetOf(p) # {}) = (ClassByRule(p) # "None")

\* a built form with an override that beats a doc tag of the table, a doc
\* tag of the table that beats the type of the default, and a doc tag
\* outside the table that falls through to the type of the default
C10_Witness ==
    /\ pc = "ready"
    /\ \E p \in 1..Len(Params) :
           LET tag == DictGet(ParseDocString(Target).types, Params[p][1], Absent)
           IN /\ DictHas(input_arg_widget_dict, Params[p][1])
              /\ DictHas(type_widgets, tag)
              /\ DictGet(type_widgets, tag, "None") # ClassByRule(p)
              /\ WidgetOf(p) # {}
    /\ \E p \in 1..Len(Params) :
           LET tag == DictGet(ParseDocString(Target).types, Params[p][1], Absent)
           IN /\ ~DictHas(input_arg_widget_dict, Params[p][1])
              /\ DictHas(type_widgets, tag)
              /\ DictGet(type_widgets, TypeName(Params[p][2]), "None") # ClassByRule(p)
              /\ WidgetOf(p) # {}
    /\ \E p \in 1..Len(Params) :
           LET tag == DictGet(ParseDocString(Target).types, Params[p][1], Absent)
           IN /\ ~DictHas(input_arg_widget_dict, Params[p][1])
              /\ tag # Absent
              /\ ~DictHas(type_widgets, tag)
              /\ WidgetOf(p) # {}

\* the parameters that have a default value, no override and no doc tag
PlainDefaultParams ==
    {p \in 1..Len(Params) :
        /\ ~IsRequired(Params[p][2])
        /\ ~DictHas(input_arg_widget_dict, Params[p][1])
        /\ ~DictHas(ParseDocString(Target).types, Params[p][1])}

\* the kind the claim gives the type name of a default
KindOfDefault(default_value) ==
    CASE default_value.t = "bool" -> "BoolCheckBoxWidget"
      [] default_value.t = "int" -> "IntegerSpinBoxWidget"
      [] default_value.t = "float" -> "DoubleSpinBoxWidget"
      [] default_value.t = "str" -> "StringLineEditWidget"
      [] OTHER -> "None"

\* the parameters the loop of generate_argument_widgets has finished
Processed == {p \in 1..Len(Params) : p < param_idx}

UnregisteredArgTypes == {"Custom", "None"}

\* the parameters without default, override and doc tag, when the type they
\* get from default_arg_type is not registered
UnregisteredParams ==
    {p \in 1..Len(Params) :
        /\ IsRequired(Params[p][2])
        /\ ~DictHas(input_arg_widget_dict, Params[p][1])
        /\ ~DictHas(ParseDocString(Target).types, Params[p][1])
        /\ default_arg_type \in UnregisteredArgTypes}

\* the call has no value that a widget of parameter name produced
NoValueOf(name, args, kwargs) ==
    /\ ~DictHas(kwargs, name)
    /\ \A j \in 1..Len(args) :
           \E i \in ModifiedWidgets :
               /\ generated_arg_widgets[i].is_required
               /\ generated_arg_widgets[i].arg_name # name
               /\ generated_arg_widgets[i].value = args[j]

\* C12: a parameter x of an unregistered type, without default and doc tag,
\* gets no widget; construction does not fail at x; and in every state
\* reached by edits, resets and runs neither get_modified_values nor a call
\* of the target has a value of x.
C12_UnresolvedNeverInCall ==
    \A p \in UnregisteredParams :
        /\ WidgetOf(p) = {}
        /\ pc = "failed" => param_idx # p
        /\ NoValueOf(Params[p][1],
                     get_modified_values(generated_arg_widgets).args,
                     get_modified_values(generated_arg_widgets).kwargs)
        /\ \A c \in 1..Len(invoked) :
               NoValueOf(Params[p][1], invoked[c].args, invoked[c].kwargs)

\* a form built with a class of the caller as default_arg_type, whose other
\* widget was edited and whose target was then run
C12_Witness ==
    /\ pc = "ready"
    /\ default_arg_type = "Custom"
    /\ UnregisteredParams # {}
    /\ ModifiedWidgets # {}
    /\ Len(invoked) = 1
    /\ Len(invoked[1].kwargs) >= 1

\* a doc line of the form ":param NAME: DESCRIPTION"
IsParamDocLine(line) ==
    /\ Len(line) > Len(ParamPrefix)
    /\ SubSeq(line, 1, Len(ParamPrefix)) = ParamPrefix
    /\ \E i \in (Len(ParamPrefix) + 1)..Len(line) : line[i] = ":"

\* NAME and DESCRIPTION of such a line: the text between the prefix and the
\* first colon after it, and the text after that colon
DocName(line) == Split(SubSeq(line, Len(ParamPrefix) + 1, Len(line)), ":")[1]
DocDescription(line) ==
    SubSeq(line, Len(ParamPrefix) + Len(DocName(line)) + 2, Len(line))

\* the doc lines of the target that document a parameter, with a description
DocumentedLines ==
    {k \in 1..Len(Target.doc) :
        IsParamDocLine(Target.doc[k]) /\ DocDescription(Target.doc[k]) # <<>>}

\* C13: every doc line ":param NAME: DESCRIPTION" with a description is
\* recorded under the key NAME: the tool tip is the description, the type is
\* the tag between angle brackets; the widget of NAME shows that tool tip
\* and, without override, has the class of a registered tag (":param path:
\* a file to load <path>" gives path the StringFilePathWidget).
C13_DocLineRecordedUnderName ==
    \A k \in DocumentedLines :
        LET name == DocName(Target.doc[k])
            desc == DocDescription(Target.doc[k])
            docs == ParseDocString(Target)
        IN /\ DictGet(docs.tips, name, Absent) = desc
           /\ RegexMatches(desc) => DictGet(docs.types, name, Absent) = RegexGroup1(desc)
           /\ \A i \in Widgets :
                  generated_arg_widgets[i].arg_name = name =>
                      /\ generated_arg_widgets[i].tool_tip = desc
                      /\ (/\ RegexMatches(desc)
                          /\ DictHas(type_widgets, RegexGroup1(desc))
                          /\ ~DictHas(input_arg_widget_dict, name))
                             => generated_arg_widgets[i].cls
                                    = DictGet(type_widgets, RegexGroup1(desc), "None")

\* most parameters of the signatures get_func_arguments is tried on
MaxParams == 3

SignatureNames == <<n_a, n_b, n_x, n_y, n_z>>

\* def sig(<n names>) whose last k names have the defaults 1 .. k
Signatures ==
    {[name |-> <<"s", "i", "g">>,
      args |-> SubSeq(SignatureNames, 1, n),
      defaults |-> [j \in 1..k |-> IntVal(j)],
      doc |-> <<>>] : n \in 0..MaxParams, k \in 0..MaxParams}

\* the n names in declaration order, the k defaults on the last k names in
\* their order, the sentinel on the first n - k
RightAligned(f) ==
    LET params == get_func_arguments(f)
        n == Len(f.args)
        k == Len(f.defaults)
    IN /\ Len(params) = n
       /\ \A i \in 1..n : params[i][1] = f.args[i]
       /\ \A i \in 1..(n - k) : params[i][2] = RequiresValueType
       /\ \A j \in 1..k : params[n - k + j][2] = f.defaults[j]

\* the position of a parameter name in the signature of the target
PositionOf(name) == CHOOSE p \in 1..Len(Target.args) : Target.args[p] = name

\* C14: get_func_arguments returns the n names in declaration order with
\* the k defaults on the last k names in their order and the sentinel on
\* the first n - k, for every 0 <= k <= n; and a widget is required exactly
\* when the signature gives its parameter no default.
C14_DefaultsRightAligned ==
    /\ \A f \in Funcs \cup {s \in Signatures : Len(s.defaults) <= Len(s.args)} :
           RightAligned(f)
    /\ \A i \in Widgets :
           generated_arg_widgets[i].is_required
               = (PositionOf(generated_arg_widgets[i].arg_name)
                      <= Len(Target.args) - Len(Target.defaults))

\* a built form of a callable with two parameters without default before
\* two with one: a required and a non-required widget
C14_Witness ==
    /\ pc = "ready"
    /\ Len(Target.args) - Len(Target.defaults) = 2
    /\ Len(Target.defaults) = 2
    /\ \E i, j \in Widgets :
           /\ generated_arg_widgets[i].is_required
           /\ ~generated_arg_widgets[j].is_required
           /\ Len(generated_arg_widgets) = Len(Target.args)

\* the widgets with the texts of widgets i and j exchanged
SwapValues(widgets, i, j) ==
    [widgets EXCEPT ![i].value = widgets[j].value, ![j].value = widgets[i].value]

\* two modified text widgets of one class that hold different texts: each
\* can be edited to the text of the other, so the exchanged texts are an
\* argument set of the form as well, and a different one
ExchangeablePairs ==
    {pair \in ModifiedWidgets \X ModifiedWidgets :
        /\ pair[1] < pair[2]
        /\ generated_arg_widgets[pair[1]].cls \in TextClasses
        /\ generated_arg_widgets[pair[1]].cls = generated_arg_widgets[pair[2]].cls
        /\ generated_arg_widgets[pair[1]].value # generated_arg_widgets[pair[2]].value}

\* C15: the values and names of a call can be read back from its preview
\* text, strings with a quote, a comma or a line break included. A reading
\* back exists only if no two argument sets share a preview text: the
\* argument set of the form and the one with the texts of two widgets
\* exchanged have different preview texts.
C15_PreviewDeterminesArguments ==
    pc = "ready" =>
        \A pair \in ExchangeablePairs :
            LET other == SwapValues(generated_arg_widgets, pair[1], pair[2])
            IN /\ get_modified_values(other) # get_modified_values(generated_arg_widgets)
               /\ preview_func_call(func, other)
                      # preview_func_call(func, generated_arg_widgets)

\* a value as the preview shows it: a string between quotes, any other
\* value as its text
RenderValue(val) == IF val.t = "str" THEN <<"'">> \o val.s \o <<"'">> ELSE Format(val)

\* the arguments of a call as the preview shows them: the positional values,
\* then the pairs name=value
RenderedArguments(mv) ==
    [j \in 1..Len(mv.args) |-> RenderValue(mv.args[j])]
    \o [j \in 1..Len(mv.kwargs) |->
           mv.kwargs[j][1] \o <<"=">> \o RenderValue(mv.kwargs[j][2])]

\* the items with sep between every two consecutive ones
RECURSIVE JoinWith(_, _)
JoinWith(items, sep) ==
    IF items = <<>> THEN <<>>
    ELSE IF Len(items) = 1 THEN items[1]
    ELSE items[1] \o sep \o JoinWith(Tail(items), sep)

\* the layout of the claim: name, "(", the arguments with a comma, a line
\* break and Len(name) + 1 spaces between two of them, and ")" on a line of
\* its own, indented alike, when there is more than one argument
CallLayout(name, mv) ==
    LET indent == Spaces(Len(name) + 1)
    IN name \o <<"(">>
       \o JoinWith(RenderedArguments(mv), <<",", "\n">> \o indent)
       \o (IF Len(mv.args) + Len(mv.kwargs) > 1
           THEN <<"\n">> \o indent \o <<")">> ELSE <<")">>)

\* C16: the preview is name( followed by the positional values and the
\* name=value pairs in order, strings in quotes; exactly one comma, line
\* break and indentation of Len("name(") between two consecutive arguments;
\* the closing parenthesis on its own indented line when p + k > 1, and
\* directly after the argument, with no separator, when p + k <= 1.
C16_PreviewLayout ==
    pc = "ready" =>
        func_preview_text_TE
            = CallLayout(func, get_modified_values(generated_arg_widgets))

\* a preview of two positional values followed by a keyword value
C16_Witness ==
    /\ pc = "ready"
    /\ Len(get_modified_values(generated_arg_widgets).args) = 2
    /\ Len(get_modified_values(generated_arg_widgets).kwargs) >= 1
    /\ func_preview_text_TE = preview_func_call(func, generated_arg_widgets)
    /\ Len(func_preview_text_TE) > Len(func) + 2

\* C17: a browse that returns a path leaves the file-path widget with that
\* path as its value and with was_modified true, in the same step and from
\* every state; a cancelled browse (the empty path) changes no widget and
\* not the preview.
C17_BrowseSetsOrLeaves ==
    [][\A i \in Widgets :
          /\ \A file_path \in BrowsePaths \ {<<>>} :
                 \/ /\ generated_arg_widgets'[i].value = StrVal(file_path)
                    /\ generated_arg_widgets'[i].was_modified
                 \/ ~BrowseFile(i, file_path)
          /\ \/ /\ generated_arg_widgets' = generated_arg_widgets
                /\ func_preview_text_TE' = func_preview_text_TE
             \/ ~BrowseFile(i, <<>>)]_vars

\* a file-path widget that holds a path chosen in the file dialog, which the
\* preview shows
C17_Witness ==
    /\ pc = "ready"
    /\ \E i \in ModifiedWidgets :
           /\ generated_arg_widgets[i].cls = "StringFilePathWidget"
           /\ generated_arg_widgets[i].value \in {StrVal(p) : p \in BrowsePaths \ {<<>>}}
           /\ generated_arg_widgets[i].style = "modified"
           /\ Contains(func_preview_text_TE, generated_arg_widgets[i].value.s)

\* C18: when run_func calls the target, the parameter Python binds the j-th
\* positional value to, the j-th name of the signature, is the parameter of
\* the widget that produced the value, also when a required parameter
\* before it is unmodified or has no widget.
C18_PositionalMatchesSignature ==
    (pc = "ready" /\ Len(invoked) = 1) =>
        LET producers == SelectSeq(generated_arg_widgets, IsPositional)
        IN /\ Len(invoked[1].args) = Len(producers)
           /\ \A j \in 1..Len(producers) :
                  /\ j <= Len(Target.args)
                  /\ producers[j].value = invoked[1].args[j]
                  /\ producers[j].arg_name = Target.args[j]

\* C19: the widget class resolved for the next parameter of the loop accepts
\* the default value that parameter is given, for every combination of
\* signature default, fallback type, doc tag and override, so construction
\* does not fail on it; and every widget built has a default its control
\* accepts, so a later reset does not fail.
C19_DefaultAcceptedByEditor ==
    /\ (pc = "generate" /\ param_idx <= Len(Params)) =>
           LET default_value == ResolvedDefault(Params[param_idx][2], default_arg_type)
               arg_widget_cls ==
                   ResolveWidgetClass(input_arg_widget_dict, ParseDocString(Target).types,
                                      Params[param_idx][1], default_value)
           IN arg_widget_cls # "None" => Accepts(arg_widget_cls, default_value)
    /\ \A i \in Widgets :
           Accepts(generated_arg_widgets[i].cls, generated_arg_widgets[i].default_value)

\* the ArgumentDialogs of target_func that are open
OpenDialogsFor(target_func) ==
    {i \in 1..Len(top_level_widgets) :
        /\ top_level_widgets[i].cls = "ArgumentDialog"
        /\ top_level_widgets[i].func = target_func
        /\ top_level_widgets[i].visible}

\* C20: after every sequence of constructions and closes at most one
\* ArgumentDialog per target function is open; the construction of a dialog
\* for a function closes every existing ArgumentDialog of that function and
\* schedules its deletion, and leaves every other top-level widget as it is.
C20_OneDialogPerFunction ==
    /\ [](\A target_func \in TargetFuncs : Cardinality(OpenDialogsFor(target_func)) <= 1)
    /\ [][\A target_func \in TargetFuncs : \A shown \in BOOLEAN :
             \/ /\ Len(top_level_widgets') = Len(top_level_widgets) + 1
                /\ \A i \in 1..Len(top_level_widgets) :
                       IF /\ top_level_widgets[i].cls = "ArgumentDialog"
                          /\ top_level_widgets[i].func = target_func
                       THEN /\ ~top_level_widgets'[i].visible
                            /\ top_level_widgets'[i].delete_later
                       ELSE top_level_widgets'[i] = top_level_widgets[i]
             \/ ~ConstructDialog(target_func, shown)]_vars

\* an open dialog that replaced a dialog of the same function, which is
\* closed and waits for its deletion, and an open dialog of another function
C20_Witness ==
    \E old, new, other \in 1..Len(top_level_widgets) :
        /\ old < new
        /\ top_level_widgets[old].cls = "ArgumentDialog"
        /\ top_level_widgets[old].delete_later
        /\ ~top_level_widgets[old].visible
        /\ top_level_widgets[new].func = top_level_widgets[old].func
        /\ top_level_widgets[new].visible
        /\ top_level_widgets[other].cls = "ArgumentDialog"
        /\ top_level_widgets[other].func # top_level_widgets[new].func
        /\ top_level_widgets[other].visible

====
